---- MODULE Spec2Model ----
(***************************************************************************)
(* A model of synthpops.Pop (src/synthpops/pop.py): the constructor        *)
(* Pop.__init__ and the allocation pipeline Pop.generate.                  *)
(*                                                                         *)
(* The free names of generate (n, with_school_types, ltcf_staff_age_min,   *)
(* ...) are read as the constructor arguments of the same name, and the    *)
(* value generate returns is the popdict it builds last.  Functions of the *)
(* package that generate calls but that are not part of pop.py (spcnx.*,   *)
(* sp.set_seed) are modelled from the design document.                     *)
(*                                                                         *)
(* Every np.random draw is an existential choice.  The generator seeded by *)
(* sp.set_seed is a fixed but unknown function of the seed: the draws of a *)
(* seeded run are written to `tape`, and a later run seeded alike reads    *)
(* them back.                                                              *)
(***************************************************************************)
EXTENDS Integers, Sequences, FiniteSets, TLC

(* ------------------------------------------------------------------ *)
(* Bounds of the model                                                *)
(* ------------------------------------------------------------------ *)
MaxN == 4           \* largest population size n
MaxFacilities == 3  \* cap on the iterations of the facility-placement loop

(* ------------------------------------------------------------------ *)
(* Program constants (defaults of Pop.__init__)                       *)
(* ------------------------------------------------------------------ *)
None == -1
ltcf_staff_age_min == 20
ltcf_staff_age_max == 60
teacher_age_min == 25
teacher_age_max == 75
staff_age_min == 20
staff_age_max == 75
max_age == 100
resident_age_min == 60

(* ------------------------------------------------------------------ *)
(* Generic helpers                                                    *)
(* ------------------------------------------------------------------ *)
Range(s) == {s[i] : i \in 1..Len(s)}

RECURSIVE SumSeq(_)
SumSeq(s) == IF s = <<>> THEN 0 ELSE Head(s) + SumSeq(Tail(s))

RECURSIVE Flatten(_)
Flatten(ss) == IF ss = <<>> THEN <<>> ELSE Head(ss) \o Flatten(Tail(ss))

Lens(ss) == [i \in 1..Len(ss) |-> Len(ss[i])]

\* math.ceil(num / den) for num >= 0, den > 0
Ceil(num, den) == (num + den - 1) \div den

Min(a, b) == IF a < b THEN a ELSE b

\* list.remove(x): drops the first occurrence of x
RECURSIVE Remove(_, _)
Remove(s, x) ==
    IF s = <<>> THEN <<>>
    ELSE IF Head(s) = x THEN Tail(s)
    ELSE <<Head(s)>> \o Remove(Tail(s), x)

\* list(set): the elements of a set of integers, each once, in ascending order
RECURSIVE SetToList(_)
SetToList(S) ==
    IF S = {} THEN <<>>
    ELSE LET m == CHOOSE x \in S : \A y \in S : x <= y
         IN <<m>> \o SetToList(S \ {m})

\* np.random.shuffle: the reorderings of a list
Shuffles(s) ==
    {p \in [1..Len(s) -> Range(s)] :
        \A a \in Range(s) :
            Cardinality({i \in 1..Len(s) : p[i] = a})
                = Cardinality({i \in 1..Len(s) : s[i] = a})}

(* ------------------------------------------------------------------ *)
(* The demographic data generate reads                                *)
(* ------------------------------------------------------------------ *)
\* representative ages of 0..max_age: a school age, a working age that is in
\* the facility-staff and teacher ranges, and the youngest resident age, which
\* is also in the facility-staff and teacher ranges
Ages == {10, 30, 60}

\* residents of every age
ResidentAges_All == Ages

\* line 258: range(60, 101)
ResidentAges == {a \in Ages : a >= resident_age_min /\ a < max_age + 1}

\* age_distr_18[b] / len(age_brackets_18[b]) as a fraction
AgeShare18Num(a) == 1
AgeShare18Den(a) == 2

\* age_distr_16[b] / len(age_brackets_16[b]) as a fraction
AgeShare16Num(a) == 1
AgeShare16Den(a) == 2

\* est_ltcf_user_by_age_brackets_perc as a fraction: 0%, 50% or 100% of the
\* bracket
PercValues == {0, 1, 2}
PercDen(a) == 2

\* the age brackets of est_seattle_users_2018, for which a usage rate is given
UsageBrackets == {"60-64", "65-74", "75-84", "85-100"}

\* the keys of est_ltcf_user_by_age_brackets_perc once lines 239-245 have
\* split the brackets 65-74 and 75-84
UsageKeys == {"60-64", "65-69", "70-74", "75-79", "80-84", "85-100"}

\* lines 239-245: the rates of 65-74 and 75-84 are copied to their halves
SplitBrackets(perc) ==
    [k \in UsageKeys |->
        IF k \in {"65-69", "70-74"} THEN perc["65-74"]
        ELSE IF k \in {"75-79", "80-84"} THEN perc["75-84"]
        ELSE perc[k]]

\* the age 65 is still given the rate of 60-64, and so on
UsageKey_Late(a) ==
    IF a < 66 THEN "60-64"
    ELSE IF a < 76 THEN "70-74"
    ELSE IF a < 86 THEN "80-84"
    ELSE "85-100"

\* lines 259-285: the key whose rate the age a is given
UsageKey(a) ==
    IF a < 65 THEN "60-64"
    ELSE IF a < 75 THEN "70-74"
    ELSE IF a < 85 THEN "80-84"
    ELSE "85-100"

\* the usage rates of a run of the whole of generate: one rate for all brackets
UniformPercs ==
    {perc \in [UsageBrackets -> PercValues] :
        \A b \in UsageBrackets : perc[b] = perc["60-64"]}

\* KC_residents_size_brackets: bracket key -> the sizes of the bracket
SizeBracketTables == { <<{1, 2}>>, <<{0, 1}, {2}>> }

\* KC_ratio_brackets: bracket key -> the ratios of the bracket
KC_ratio_brackets == << {2, 3, 4}, {5, 6, 7} >>

\* household_size_distr keys
HouseholdSizes == {2}

\* school size bracket values
SchoolSizes == {1, 2}

\* workplace size bracket values
WorkplaceSizes == {1, 2}

\* ages with a positive school enrollment rate
EnrollmentAges == {a \in Ages : a < 16}

\* ages with an employment rate
EmploymentAges == {a \in Ages : a >= 16}

\* employment rate as a fraction with denominator 2
EmploymentRateNums == {1, 2}

Seeds == {None, 1}

\* school_mixing_type: one mode as a string, or a dict of modes by school type
MixingTypes == {"random", "by_type"}

\* <<with_facilities, with_school_types, with_non_teaching_staff,
\* school_mixing_type>> as the tests configure them: the defaults
\* (test_regression.py), all on with a mixing type per school type, and the
\* same with the school types off (test_school_sizes_by_type.py)
Options == {<<FALSE, FALSE, FALSE, "random">>, <<TRUE, TRUE, TRUE, "by_type">>,
            <<TRUE, FALSE, TRUE, "by_type">>}

\* configured ratios: students per teacher, students per staff member
StudentTeacherRatios == {2}
StudentAllStaffRatios == {1}

VARIABLES
    pc,                 \* position in Pop.__init__ / generate
    n, with_facilities, with_school_types, with_non_teaching_staff, rand_seed,
    school_mixing_type, do_make,
    country_location, state_location, location,     \* the arguments
    self_country_location, self_state_location, self_location,
    average_student_teacher_ratio, average_student_all_staff_ratio,
    est_perc,           \* est_ltcf_user_by_age_brackets_perc, by usage bracket
    KC_residents_size_brackets,
    employment_rate,    \* numerator over 2
    expected_users_by_age,
    all_residents,
    facilities,
    ratio_sb,           \* the ratio bracket key sb of line 429, by facility
    homes_by_uids, age_by_uid_dic, facilities_by_uids,
    syn_school_uids,
    potential_worker_uids, potential_worker_uids_by_age,
    workers_by_age_to_assign_count,
    syn_teacher_uids, syn_non_teaching_staff_uids,
    facilities_staff_uids,
    syn_workplace_uids,
    loop,               \* <<index of the group being staffed, draws left>>
    error,              \* the stage whose exception ended the run, or "none"
    population,         \* what generate returns
    popdict,            \* self.popdict
    exported,           \* the dictionary the last to_dict call returned
    seeded, tape, tapeIdx, runNo, firstPop

argVars == <<n, with_facilities, with_school_types, with_non_teaching_staff,
             rand_seed, school_mixing_type, do_make,
             country_location, state_location, location,
             average_student_teacher_ratio,
             average_student_all_staff_ratio, est_perc,
             KC_residents_size_brackets, employment_rate>>
locVars == <<self_country_location, self_state_location, self_location>>
cfgVars == <<argVars, locVars>>
facVars == <<expected_users_by_age, all_residents, facilities, ratio_sb>>
homeVars == <<homes_by_uids, age_by_uid_dic, facilities_by_uids>>
poolVars == <<potential_worker_uids, potential_worker_uids_by_age,
              workers_by_age_to_assign_count>>
roleVars == <<syn_school_uids, syn_teacher_uids, syn_non_teaching_staff_uids,
              facilities_staff_uids, syn_workplace_uids>>
outVars == <<population, popdict, exported>>
rngVars == <<seeded, tape, tapeIdx>>
runVars == <<runNo, firstPop>>
vars == <<pc, cfgVars, facVars, homeVars, poolVars, roleVars, loop, error,
          outVars, rngVars, runVars>>

(* ------------------------------------------------------------------ *)
(* The random generator                                               *)
(* ------------------------------------------------------------------ *)
\* one draw with outcome v from the generator np.random
Rng(v) ==
    /\ (seeded /\ runNo = 2 /\ tapeIdx < Len(tape)) => v = tape[tapeIdx + 1]
    /\ tape' = IF seeded /\ runNo = 1 THEN Append(tape, v) ELSE tape
    /\ tapeIdx' = IF runNo = 0 THEN tapeIdx ELSE tapeIdx + 1
    /\ UNCHANGED seeded

(* ------------------------------------------------------------------ *)
(* Pop.__init__, up to the call of generate                           *)
(* ------------------------------------------------------------------ *)
\* None where a name of a country, a state or a location is expected
NoName == "None"

\* no dictionary has been returned
NoExport == [val |-> <<>>, aliased |-> {}, fresh |-> FALSE]

\* the state of a Pop object whose constructor has been entered
Blank ==
    /\ pc = "new"
    /\ self_country_location = NoName
    /\ self_state_location = NoName
    /\ self_location = NoName
    /\ expected_users_by_age = <<>>
    /\ all_residents = <<>>
    /\ facilities = <<>>
    /\ ratio_sb = <<>>
    /\ homes_by_uids = <<>>
    /\ age_by_uid_dic = <<>>
    /\ facilities_by_uids = <<>>
    /\ syn_school_uids = <<>>
    /\ potential_worker_uids = {}
    /\ potential_worker_uids_by_age = [a \in Ages |-> <<>>]
    /\ workers_by_age_to_assign_count = [a \in Ages |-> 0]
    /\ syn_teacher_uids = <<>>
    /\ syn_non_teaching_staff_uids = <<>>
    /\ facilities_staff_uids = <<>>
    /\ syn_workplace_uids = <<>>
    /\ loop = <<1, -1>>
    /\ error = "none"
    /\ population = <<>>
    /\ popdict = <<>>
    /\ exported = NoExport

Args ==
    /\ n \in 1..MaxN
    /\ \E o \in Options :
          /\ with_facilities = o[1]
          /\ with_school_types = o[2]
          /\ with_non_teaching_staff = o[3]
          /\ school_mixing_type = o[4]
    /\ rand_seed \in Seeds
    /\ do_make \in BOOLEAN
    /\ average_student_teacher_ratio \in StudentTeacherRatios
    /\ average_student_all_staff_ratio \in StudentAllStaffRatios
    /\ est_perc \in UniformPercs
    /\ KC_residents_size_brackets \in SizeBracketTables
    /\ employment_rate \in EmploymentRateNums

\* line 19: no location is given
DefaultLocation ==
    /\ country_location = NoName
    /\ state_location = NoName
    /\ location = NoName

\* the location the tests give
TestLocation ==
    /\ country_location = "usa"
    /\ state_location = "Washington"
    /\ location = "seattle_metro"

\* one construction, with the default rand_seed, do_make and location
Init ==
    /\ Args
    /\ rand_seed = None
    /\ do_make
    /\ DefaultLocation
    /\ Blank
    /\ seeded = FALSE
    /\ tape = <<>>
    /\ tapeIdx = 0
    /\ runNo = 0
    /\ firstPop = <<>>

\* the generator is left unseeded
SetSeed_Never == FALSE

\* sp.set_seed(self.rand_seed), only for a seed that is not None
SetSeed == rand_seed # None

\* cfg.default_country, cfg.default_state, cfg.default_location
default_country == "usa"
default_state == "Washington"
default_location == "seattle_metro"

\* without a country only the country is set to its default
ResolveLocation_KeepCaller(country, state, loc) ==
    <<IF country = NoName THEN default_country ELSE country,
      state,
      IF state = NoName THEN NoName ELSE loc>>

\* lines 97-108: <<self.country_location, self.state_location, self.location>>
\* for the arguments given
ResolveLocation(country, state, loc) ==
    LET c == IF country = NoName THEN default_country ELSE country
        s == IF country = NoName THEN default_state ELSE state
        l == IF country = NoName THEN default_location ELSE loc
    IN <<c, s, IF s = NoName THEN NoName ELSE l>>

\* lines 65-67 and 97-108
SetLocation ==
    LET r == ResolveLocation(country_location, state_location, location)
    IN /\ self_country_location' = r[1]
       /\ self_state_location' = r[2]
       /\ self_location' = r[3]

\* the constructor rejects a mixing type per school type when the school
\* types are off
InitPop_Rejecting ==
    /\ pc = "new"
    /\ IF school_mixing_type = "by_type" /\ ~with_school_types
       THEN /\ pc' = "failed"
            /\ error' = "configuration"
            /\ UNCHANGED <<seeded, tapeIdx>>
       ELSE /\ pc' = "generate"
            /\ error' = error
            /\ seeded' = SetSeed
            /\ tapeIdx' = IF SetSeed THEN 0 ELSE tapeIdx
    /\ SetLocation
    /\ UNCHANGED <<argVars, facVars, homeVars, poolVars, roleVars, loop,
                   outVars, tape, runVars>>

\* lines 56-111: the arguments are stored, whatever they are, and the
\* generator is seeded
InitPop ==
    /\ pc = "new"
    /\ pc' = "generate"
    /\ seeded' = SetSeed
    /\ tapeIdx' = IF SetSeed THEN 0 ELSE tapeIdx
    /\ SetLocation
    /\ UNCHANGED <<argVars, facVars, homeVars, poolVars, roleVars, loop,
                   error, outVars, tape, runVars>>

(* ------------------------------------------------------------------ *)
(* generate: facility residents                                       *)
(* ------------------------------------------------------------------ *)
\* expected_users_by_age[a], rounded up
ExpectedUsers(a) ==
    Ceil(n * AgeShare18Num(a) * SplitBrackets(est_perc)[UsageKey(a)],
         AgeShare18Den(a) * PercDen(a))

\* [a] * k
Repeat(a, k) == [i \in 1..k |-> a]

\* all_residents before the shuffle: [a] * expected_users_by_age[a], ages ascending
ResidentList(users) ==
    LET ages == SetToList(DOMAIN users)
    IN Flatten([i \in 1..Len(ages) |-> Repeat(ages[i], users[ages[i]])])

\* lines 254-300
MakeResidents ==
    /\ pc = "generate"
    /\ LET users == [a \in ResidentAges |-> ExpectedUsers(a)]
       IN /\ expected_users_by_age' = users
          /\ \E sh \in Shuffles(ResidentList(users)) :
                /\ Rng(sh)
                /\ all_residents' = sh
    /\ facilities' = <<>>
    /\ pc' = "place"
    /\ UNCHANGED <<cfgVars, ratio_sb, homeVars, poolVars, roleVars, loop, error,
                   outVars, runVars>>

\* the size of a new facility: the sampled size, clamped to the residents left
FacilitySize(size, residents) ==
    IF size > Len(residents) THEN Len(residents) ELSE size

\* an iteration that drops the resident after the ones it places
PlaceResidents_SkipOne ==
    /\ pc = "place"
    /\ Len(all_residents) > 0
    /\ Len(facilities) < MaxFacilities
    /\ \E sb \in DOMAIN KC_residents_size_brackets :
         \E sampled \in KC_residents_size_brackets[sb] :
            LET size == FacilitySize(sampled, all_residents)
                new_facility == SubSeq(all_residents, 1, size)
            IN /\ Rng(<<sb, sampled>>)
               /\ facilities' = Append(facilities, new_facility)
               /\ all_residents' = SubSeq(all_residents, size + 2, Len(all_residents))
    /\ UNCHANGED <<pc, cfgVars, expected_users_by_age, ratio_sb, homeVars,
                   poolVars, roleVars, loop, error, outVars, runVars>>

\* lines 304-316: one iteration of the placement loop
PlaceResidents ==
    /\ pc = "place"
    /\ Len(all_residents) > 0
    /\ Len(facilities) < MaxFacilities
    /\ \E sb \in DOMAIN KC_residents_size_brackets :
         \E sampled \in KC_residents_size_brackets[sb] :
            LET size == FacilitySize(sampled, all_residents)
                new_facility == SubSeq(all_residents, 1, size)
            IN /\ Rng(<<sb, sampled>>)
               /\ facilities' = Append(facilities, new_facility)
               /\ all_residents' = SubSeq(all_residents, size + 1, Len(all_residents))
    /\ UNCHANGED <<pc, cfgVars, expected_users_by_age, ratio_sb, homeVars,
                   poolVars, roleVars, loop, error, outVars, runVars>>

(* ------------------------------------------------------------------ *)
(* generate: households and uids                                      *)
(* ------------------------------------------------------------------ *)
\* the residents are not taken off the population size
n_nonltcf_NoSubtract == n

\* line 338: the people not placed in a facility
n_nonltcf == n - SumSeq(Lens(facilities))

\* the households custom_generate_all_households can return for N people: a
\* size from the household size distribution, never more than the people
\* left, and an age for every member
RECURSIVE Households(_)
Households(N) ==
    IF N = 0 THEN {<<>>}
    ELSE UNION {
            {<<h>> \o rest : h \in [1..Min(s, N) -> Ages],
                             rest \in Households(N - Min(s, N))} :
            s \in HouseholdSizes}

\* line 350: the facilities are put in front of the households
AllHomes(homes) == facilities \o homes

\* spcnx.assign_uids_by_homes: uids are given in the order of the homes (the
\* model counts them from 1)
RECURSIVE AssignUids(_, _)
AssignUids(homes, first) ==
    IF homes = <<>> THEN <<>>
    ELSE <<[j \in 1..Len(Head(homes)) |-> first + j - 1]>>
            \o AssignUids(Tail(homes), first + Len(Head(homes)))

\* line 354
FacilitiesByUids(by_uids) == SubSeq(by_uids, 1, Len(facilities))

\* lines 318-357
GenerateHouseholds ==
    /\ pc = "place"
    /\ Len(all_residents) = 0
    /\ IF n_nonltcf < 0
       THEN /\ pc' = "failed"
            /\ error' = "households"
            /\ UNCHANGED <<homeVars, rngVars>>
       ELSE \E hh \in Households(n_nonltcf) :
              LET homes == AllHomes(hh)
                  by_uids == AssignUids(homes, 1)
              IN /\ Rng(hh)
                 /\ homes_by_uids' = by_uids
                 /\ age_by_uid_dic' = Flatten(homes)
                 /\ facilities_by_uids' = FacilitiesByUids(by_uids)
                 /\ pc' = "school"
                 /\ UNCHANGED error
    /\ UNCHANGED <<cfgVars, facVars, poolVars, roleVars, loop, outVars, runVars>>

(* ------------------------------------------------------------------ *)
(* generate: schools                                                  *)
(* ------------------------------------------------------------------ *)
Uids == 1..Len(age_by_uid_dic)

\* the uids spcnx.get_uids_in_school may enroll: those of an age with a
\* positive enrollment rate
Enrollable == {u \in Uids : age_by_uid_dic[u] \in EnrollmentAges}

\* a list cut into groups of the given size, the last group taking what is left
RECURSIVE Chunks(_, _)
Chunks(s, size) ==
    IF s = <<>> THEN <<>>
    ELSE IF Len(s) <= size THEN <<s>>
    ELSE <<SubSeq(s, 1, size)>> \o Chunks(SubSeq(s, size + 1, Len(s)), size)

\* lines 359-386: students are enrolled and sent to schools
SendStudentsToSchool ==
    /\ pc = "school"
    /\ \E students \in SUBSET Enrollable :
         \E size \in SchoolSizes :
            /\ Rng(<<SetToList(students), size>>)
            /\ syn_school_uids' = Chunks(SetToList(students), size)
    /\ pc' = "workers"
    /\ UNCHANGED <<cfgVars, facVars, homeVars, poolVars, syn_teacher_uids,
                   syn_non_teaching_staff_uids, facilities_staff_uids,
                   syn_workplace_uids, loop, error, outVars, runVars>>

(* ------------------------------------------------------------------ *)
(* generate: the potential-worker pool                                *)
(* ------------------------------------------------------------------ *)
Students == UNION {Range(syn_school_uids[i]) : i \in 1..Len(syn_school_uids)}

\* spcnx.get_uids_potential_workers: everyone of an age with an employment
\* rate who is not a student
PotentialWorkers == {u \in Uids : age_by_uid_dic[u] \in EmploymentAges /\ u \notin Students}

PotentialWorkersByAge == [a \in Ages |-> SetToList({u \in PotentialWorkers : age_by_uid_dic[u] = a})]

\* spcnx.get_workers_by_age_to_assign: the employed share of the people of an
\* age, at most the potential workers of that age
WorkersByAgeToAssign ==
    [a \in Ages |->
        IF a \in EmploymentAges
        THEN Min(Ceil(employment_rate * Cardinality({u \in Uids : age_by_uid_dic[u] = a}), 2),
                 Len(PotentialWorkersByAge[a]))
        ELSE 0]

\* the teachers are drawn right away, the residents still in the pool
GetPotentialWorkers_ThenTeachers ==
    /\ pc = "workers"
    /\ potential_worker_uids' = PotentialWorkers
    /\ potential_worker_uids_by_age' = PotentialWorkersByAge
    /\ workers_by_age_to_assign_count' = WorkersByAgeToAssign
    /\ pc' = "teachers"
    /\ UNCHANGED <<cfgVars, facVars, homeVars, roleVars, loop, error, outVars,
                   rngVars, runVars>>

\* lines 388-393
GetPotentialWorkers ==
    /\ pc = "workers"
    /\ potential_worker_uids' = PotentialWorkers
    /\ potential_worker_uids_by_age' = PotentialWorkersByAge
    /\ workers_by_age_to_assign_count' = WorkersByAgeToAssign
    /\ pc' = "remove_residents"
    /\ UNCHANGED <<cfgVars, facVars, homeVars, roleVars, loop, error, outVars,
                   rngVars, runVars>>

\* a worker pool: the uids, the uids by age, the count left to assign by age
Pool(uids, by_age, count) == [uids |-> uids, by_age |-> by_age, count |-> count]

\* the resident stays in the pool
RemoveResident_Skip(pool, uid) == pool

\* the count is decremented without looking at it
RemoveResident_NoClamp(pool, uid) ==
    LET aindex == age_by_uid_dic[uid]
    IN IF uid \in pool.uids
       THEN Pool(pool.uids \ {uid},
                 [pool.by_age EXCEPT ![aindex] = Remove(@, uid)],
                 [pool.count EXCEPT ![aindex] = @ - 1])
       ELSE pool

\* the resident is popped from the dictionary and stays in the list of its age
RemoveResident_OnlyDict(pool, uid) ==
    LET aindex == age_by_uid_dic[uid]
    IN IF uid \in pool.uids
       THEN Pool(pool.uids \ {uid},
                 pool.by_age,
                 IF pool.count[aindex] > 0
                 THEN [pool.count EXCEPT ![aindex] = @ - 1]
                 ELSE pool.count)
       ELSE pool

\* lines 398-403: one facility resident is taken out of the pool
RemoveResident(pool, uid) ==
    LET aindex == age_by_uid_dic[uid]
    IN IF uid \in pool.uids
       THEN Pool(pool.uids \ {uid},
                 [pool.by_age EXCEPT ![aindex] = Remove(@, uid)],
                 IF pool.count[aindex] > 0
                 THEN [pool.count EXCEPT ![aindex] = @ - 1]
                 ELSE pool.count)
       ELSE pool

RECURSIVE RemoveAll(_, _)
RemoveAll(pool, uids) ==
    IF uids = <<>> THEN pool
    ELSE RemoveAll(RemoveResident(pool, Head(uids)), Tail(uids))

\* lines 395-403
RemoveResidents ==
    /\ pc = "remove_residents"
    /\ LET pool == RemoveAll(Pool(potential_worker_uids,
                                  potential_worker_uids_by_age,
                                  workers_by_age_to_assign_count),
                             Flatten(facilities_by_uids))
       IN /\ potential_worker_uids' = pool.uids
          /\ potential_worker_uids_by_age' = pool.by_age
          /\ workers_by_age_to_assign_count' = pool.count
    /\ pc' = "teachers"
    /\ loop' = <<1, -1>>
    /\ UNCHANGED <<cfgVars, facVars, homeVars, roleVars, error, outVars,
                   rngVars, runVars>>

(* ------------------------------------------------------------------ *)
(* Drawing a worker of an age range                                   *)
(* ------------------------------------------------------------------ *)
\* np.arange(lo, hi + 1)
AgeRange(lo, hi) == {a \in Ages : lo <= a /\ a <= hi}

\* np.sum of the counts left over an age range
CountLeft(range) ==
    SumSeq([i \in 1..Len(SetToList(range)) |->
                workers_by_age_to_assign_count[SetToList(range)[i]]])

\* np.random.choice(a=range, p=a_prob): the ages of positive weight
DrawableAges(range) == {a \in range : workers_by_age_to_assign_count[a] > 0}

\* the draw raises: the weights are 0/0 (ValueError), or the age drawn has no
\* uid left (IndexError)
DrawFails(range) ==
    \/ CountLeft(range) = 0
    \/ \E a \in DrawableAges(range) : potential_worker_uids_by_age[a] = <<>>

\* the uid drawn stays in the list of its age
TakeWorker_KeepInList(aindex) ==
    LET uid == potential_worker_uids_by_age[aindex][1]
    IN /\ potential_worker_uids_by_age' = potential_worker_uids_by_age
       /\ potential_worker_uids' = potential_worker_uids \ {uid}
       /\ workers_by_age_to_assign_count' =
              [workers_by_age_to_assign_count EXCEPT ![aindex] = @ - 1]

\* the count left to assign of the age drawn stays as it was
TakeWorker_KeepCount(aindex) ==
    LET uid == potential_worker_uids_by_age[aindex][1]
    IN /\ potential_worker_uids_by_age' =
              [potential_worker_uids_by_age EXCEPT ![aindex] = Remove(@, uid)]
       /\ potential_worker_uids' = potential_worker_uids \ {uid}
       /\ workers_by_age_to_assign_count' = workers_by_age_to_assign_count

\* lines 445-448: the first uid of the age drawn leaves the pool
TakeWorker(aindex) ==
    LET uid == potential_worker_uids_by_age[aindex][1]
    IN /\ potential_worker_uids_by_age' =
              [potential_worker_uids_by_age EXCEPT ![aindex] = Remove(@, uid)]
       /\ potential_worker_uids' = potential_worker_uids \ {uid}
       /\ workers_by_age_to_assign_count' =
              [workers_by_age_to_assign_count EXCEPT ![aindex] = @ - 1]

\* the group list with uid appended to its last group
AddToLast(groups, uid) == [groups EXCEPT ![Len(groups)] = Append(@, uid)]

\* the loop stops one draw short
Advance_OneShort(i, k) == IF k <= 2 THEN <<i + 1, -1>> ELSE <<i, k - 1>>

\* the loop position after one more draw for group i, k draws being left
Advance(i, k) == IF k <= 1 THEN <<i + 1, -1>> ELSE <<i, k - 1>>

(* ------------------------------------------------------------------ *)
(* generate: teachers and non-teaching school staff                   *)
(* ------------------------------------------------------------------ *)
\* what generate does when a stage raises: it has no handler, the exception
\* ends the run
Raise(stage) ==
    /\ pc' = "failed"
    /\ error' = stage

\* the exception is swallowed and generate goes on to the school staff
TeacherError_Skip ==
    /\ pc' = "staff"
    /\ UNCHANGED error

\* lines 405-407: an exception of assign_teachers_to_schools
TeacherError == Raise("teachers")

\* lines 409-410: an exception of assign_additional_staff_to_schools
StaffError == Raise("staff")

\* teachers a school needs
NTeachers(school) == Ceil(Len(school), average_student_teacher_ratio)

\* non-teaching staff a school needs: all staff minus teachers, at least 0
NNonTeaching(school) ==
    LET n_all_staff == Ceil(Len(school), average_student_all_staff_ratio)
    IN IF n_all_staff > NTeachers(school) THEN n_all_staff - NTeachers(school) ELSE 0

TeacherAges == AgeRange(teacher_age_min, teacher_age_max)
StaffAges == AgeRange(staff_age_min, staff_age_max)

\* assign_teachers_to_schools: the next school is taken up
AssignTeachersStart ==
    /\ pc = "teachers"
    /\ loop[2] = -1
    /\ loop[1] <= Len(syn_school_uids)
    /\ syn_teacher_uids' = Append(syn_teacher_uids, <<>>)
    /\ loop' = <<loop[1], NTeachers(syn_school_uids[loop[1]])>>
    /\ UNCHANGED <<pc, cfgVars, facVars, homeVars, poolVars, syn_school_uids,
                   syn_non_teaching_staff_uids, facilities_staff_uids,
                   syn_workplace_uids, error, outVars, rngVars, runVars>>

\* assign_teachers_to_schools: one teacher is drawn
AssignTeachersDraw ==
    /\ pc = "teachers"
    /\ loop[2] > 0
    /\ IF CountLeft(TeacherAges) = 0
       THEN /\ TeacherError
            /\ UNCHANGED <<poolVars, syn_teacher_uids, loop, rngVars>>
       ELSE \E aindex \in DrawableAges(TeacherAges) :
              /\ Rng(<<aindex>>)
              /\ IF potential_worker_uids_by_age[aindex] = <<>>
                 THEN /\ TeacherError
                      /\ UNCHANGED <<poolVars, syn_teacher_uids, loop>>
                 ELSE /\ TakeWorker(aindex)
                      /\ syn_teacher_uids' =
                            AddToLast(syn_teacher_uids, potential_worker_uids_by_age[aindex][1])
                      /\ loop' = Advance(loop[1], loop[2])
                      /\ UNCHANGED <<pc, error>>
    /\ UNCHANGED <<cfgVars, facVars, homeVars, syn_school_uids,
                   syn_non_teaching_staff_uids, facilities_staff_uids,
                   syn_workplace_uids, outVars, runVars>>

\* lines 405-407: assign_teachers_to_schools returns
AssignTeachersDone ==
    /\ pc = "teachers"
    /\ loop[2] = -1
    /\ loop[1] > Len(syn_school_uids)
    /\ pc' = "staff"
    /\ loop' = <<1, -1>>
    /\ UNCHANGED <<cfgVars, facVars, homeVars, poolVars, roleVars, error,
                   outVars, rngVars, runVars>>

\* assign_additional_staff_to_schools: the next school is taken up
AssignStaffStart ==
    /\ pc = "staff"
    /\ loop[2] = -1
    /\ loop[1] <= Len(syn_school_uids)
    /\ syn_non_teaching_staff_uids' = Append(syn_non_teaching_staff_uids, <<>>)
    /\ loop' = IF NNonTeaching(syn_school_uids[loop[1]]) > 0
               THEN <<loop[1], NNonTeaching(syn_school_uids[loop[1]])>>
               ELSE <<loop[1] + 1, -1>>
    /\ UNCHANGED <<pc, cfgVars, facVars, homeVars, poolVars, syn_school_uids,
                   syn_teacher_uids, facilities_staff_uids,
                   syn_workplace_uids, error, outVars, rngVars, runVars>>

\* assign_additional_staff_to_schools: one staff member is drawn
AssignStaffDraw ==
    /\ pc = "staff"
    /\ loop[2] > 0
    /\ IF CountLeft(StaffAges) = 0
       THEN /\ StaffError
            /\ UNCHANGED <<poolVars, syn_non_teaching_staff_uids, loop, rngVars>>
       ELSE \E aindex \in DrawableAges(StaffAges) :
              /\ Rng(<<aindex>>)
              /\ IF potential_worker_uids_by_age[aindex] = <<>>
                 THEN /\ StaffError
                      /\ UNCHANGED <<poolVars, syn_non_teaching_staff_uids, loop>>
                 ELSE /\ TakeWorker(aindex)
                      /\ syn_non_teaching_staff_uids' =
                            AddToLast(syn_non_teaching_staff_uids,
                                      potential_worker_uids_by_age[aindex][1])
                      /\ loop' = Advance(loop[1], loop[2])
                      /\ UNCHANGED <<pc, error>>
    /\ UNCHANGED <<cfgVars, facVars, homeVars, syn_school_uids,
                   syn_teacher_uids, facilities_staff_uids,
                   syn_workplace_uids, outVars, runVars>>

\* lines 409-410: assign_additional_staff_to_schools returns
AssignStaffDone ==
    /\ pc = "staff"
    /\ loop[2] = -1
    /\ loop[1] > Len(syn_school_uids)
    /\ pc' = "facility_staff"
    /\ loop' = <<1, -1>>
    /\ UNCHANGED <<cfgVars, facVars, homeVars, poolVars, roleVars, error,
                   outVars, rngVars, runVars>>

(* ------------------------------------------------------------------ *)
(* generate: facility staff                                           *)
(* ------------------------------------------------------------------ *)
RECURSIVE SumSet(_)
SumSet(S) == IF S = {} THEN 0 ELSE LET x == CHOOSE y \in S : TRUE IN x + SumSet(S \ {x})

\* the ratio is not divided by 3 for the shifts
NStaff_NoShifts(n_residents, sb_range) ==
    Ceil(n_residents * Cardinality(sb_range), SumSet(sb_range))

\* lines 427-437: int(math.ceil(n_residents / (np.mean(sb_range) / 3.)))
NStaff(n_residents, sb_range) ==
    Ceil(n_residents * 3 * Cardinality(sb_range), SumSet(sb_range))

LtcfStaffAges == AgeRange(ltcf_staff_age_min, ltcf_staff_age_max)

\* lines 426-438: the next facility is taken up and its ratio bracket drawn
FacilityStaffStart ==
    /\ pc = "facility_staff"
    /\ loop[2] = -1
    /\ loop[1] <= Len(facilities)
    /\ \E sb \in DOMAIN KC_ratio_brackets :
         LET n_staff == NStaff(Len(facilities[loop[1]]), KC_ratio_brackets[sb])
         IN /\ Rng(<<sb>>)
            /\ ratio_sb' = Append(ratio_sb, sb)
            /\ loop' = IF n_staff > 0 THEN <<loop[1], n_staff>> ELSE <<loop[1] + 1, -1>>
    /\ facilities_staff_uids' = Append(facilities_staff_uids, <<>>)
    /\ UNCHANGED <<pc, cfgVars, expected_users_by_age, all_residents,
                   facilities, homeVars, poolVars, syn_school_uids,
                   syn_teacher_uids, syn_non_teaching_staff_uids,
                   syn_workplace_uids, error, outVars, runVars>>

\* the draw is given up and generate goes on to the workplaces
FacilityStaffError_Skip ==
    /\ pc' = "workplaces"
    /\ UNCHANGED error

\* lines 441-443: the draw of an age when no count is left divides 0 by 0 and
\* np.random.choice raises
FacilityStaffError == Raise("facility_staff")

\* lines 440-451: one staff member is drawn
FacilityStaffDraw ==
    /\ pc = "facility_staff"
    /\ loop[2] > 0
    /\ IF CountLeft(LtcfStaffAges) = 0
       THEN /\ FacilityStaffError
            /\ UNCHANGED <<poolVars, facilities_staff_uids, loop, rngVars>>
       ELSE \E aindex \in DrawableAges(LtcfStaffAges) :
              /\ Rng(<<aindex>>)
              /\ IF potential_worker_uids_by_age[aindex] = <<>>
                 THEN /\ FacilityStaffError
                      /\ UNCHANGED <<poolVars, facilities_staff_uids, loop>>
                 ELSE /\ TakeWorker(aindex)
                      /\ facilities_staff_uids' =
                            AddToLast(facilities_staff_uids,
                                      potential_worker_uids_by_age[aindex][1])
                      /\ loop' = Advance(loop[1], loop[2])
                      /\ UNCHANGED <<pc, error>>
    /\ UNCHANGED <<cfgVars, facVars, homeVars, syn_school_uids,
                   syn_teacher_uids, syn_non_teaching_staff_uids,
                   syn_workplace_uids, outVars, runVars>>

\* lines 426-454: every facility has been staffed
FacilityStaffDone ==
    /\ pc = "facility_staff"
    /\ loop[2] = -1
    /\ loop[1] > Len(facilities)
    /\ pc' = "workplaces"
    /\ UNCHANGED <<cfgVars, facVars, homeVars, poolVars, roleVars, loop, error,
                   outVars, rngVars, runVars>>

(* ------------------------------------------------------------------ *)
(* generate: workplaces                                               *)
(* ------------------------------------------------------------------ *)
\* the workers assign_rest_of_workers places: of every age, as many potential
\* workers as are left to assign
RestOfWorkers ==
    Flatten([i \in 1..Len(SetToList(Ages)) |->
        LET a == SetToList(Ages)[i]
        IN SubSeq(potential_worker_uids_by_age[a], 1,
                  Min(workers_by_age_to_assign_count[a],
                      Len(potential_worker_uids_by_age[a])))])

\* lines 461-467
AssignRestOfWorkers ==
    /\ pc = "workplaces"
    /\ \E size \in WorkplaceSizes :
         /\ Rng(<<size>>)
         /\ syn_workplace_uids' = Chunks(RestOfWorkers, size)
    /\ potential_worker_uids' = potential_worker_uids \ Range(RestOfWorkers)
    /\ potential_worker_uids_by_age' =
          [a \in Ages |-> SetToList(Range(potential_worker_uids_by_age[a])
                                        \ Range(RestOfWorkers))]
    /\ workers_by_age_to_assign_count' =
          [a \in Ages |-> workers_by_age_to_assign_count[a]
                            - Cardinality({u \in Range(RestOfWorkers) : age_by_uid_dic[u] = a})]
    /\ pc' = "contacts"
    /\ UNCHANGED <<cfgVars, facVars, homeVars, syn_school_uids, syn_teacher_uids,
                   syn_non_teaching_staff_uids, facilities_staff_uids, loop,
                   error, outVars, runVars>>

(* ------------------------------------------------------------------ *)
(* generate: the contact network                                      *)
(* ------------------------------------------------------------------ *)
Layers == {"H", "S", "W", "LTCF"}

\* the facilities stay among the homes
StripFacilities_Keep(by_uids) == by_uids

\* line 470: the facilities are taken off the front of the homes
StripFacilities(by_uids) == SubSeq(by_uids, Len(facilities_by_uids) + 1, Len(by_uids))

\* the members of group i of several lists of groups
Members(lists, i) == UNION {Range(lists[k][i]) : k \in 1..Len(lists)}

\* the index of the group a uid is a member of, None without one
GroupOf(lists, u) ==
    IF \E i \in 1..Len(lists[1]) : u \in Members(lists, i)
    THEN CHOOSE i \in 1..Len(lists[1]) : u \in Members(lists, i)
    ELSE None

\* everyone who shares a group with u, u left out
GroupContacts(lists, u) ==
    UNION {Members(lists, i) : i \in {j \in 1..Len(lists[1]) : u \in Members(lists, j)}} \ {u}

\* the keys of the school size distribution by type
SchoolTypes == {"pk", "es", "ms", "hs", "uv"}

\* the school type whose age range holds age a
SchoolTypeByAge(a) ==
    IF a < 6 THEN "pk"
    ELSE IF a < 11 THEN "es"
    ELSE IF a < 14 THEN "ms"
    ELSE IF a < 18 THEN "hs"
    ELSE "uv"

\* the youngest student of a school
MinStudentAge(scid) ==
    CHOOSE a \in {age_by_uid_dic[u] : u \in Range(syn_school_uids[scid])} :
        \A u \in Range(syn_school_uids[scid]) : a <= age_by_uid_dic[u]

\* every school is left without a type
SchoolTypeOf_Untyped(scid) == "None"

\* schools are typed whether or not explicit school types are on
SchoolTypeOf_IgnoringOption(scid) ==
    IF scid = None THEN "None" ELSE SchoolTypeByAge(MinStudentAge(scid))

\* the type of a school: with explicit school types the type whose age range
\* its students are of, else none
SchoolTypeOf(scid) ==
    IF scid = None \/ ~with_school_types THEN "None"
    ELSE SchoolTypeByAge(MinStudentAge(scid))

\* spcnx.make_contacts_from_microstructure_objects
MakeContacts(homes) ==
    LET H == <<homes>>
        S == <<syn_school_uids, syn_teacher_uids, syn_non_teaching_staff_uids>>
        W == <<syn_workplace_uids>>
        L == <<facilities_by_uids, facilities_staff_uids>>
    IN [u \in Uids |->
          [age |-> age_by_uid_dic[u],
           hhid |-> GroupOf(H, u),
           scid |-> GroupOf(S, u),
           sc_type |-> SchoolTypeOf(GroupOf(S, u)),
           wpid |-> GroupOf(W, u),
           snf_id |-> GroupOf(L, u),
           contacts |-> [l \in Layers |->
                CASE l = "H" -> GroupContacts(H, u)
                  [] l = "S" -> GroupContacts(S, u)
                  [] l = "W" -> GroupContacts(W, u)
                  [] l = "LTCF" -> GroupContacts(L, u)]]]

\* lines 469-492
MakePopdict ==
    /\ pc = "contacts"
    /\ homes_by_uids' = StripFacilities(homes_by_uids)
    /\ population' = MakeContacts(StripFacilities(homes_by_uids))
    /\ pc' = "generated"
    /\ UNCHANGED <<cfgVars, facVars, age_by_uid_dic, facilities_by_uids,
                   poolVars, roleVars, loop, error, popdict, exported,
                   rngVars, runVars>>

(* ------------------------------------------------------------------ *)
(* Pop.__init__, after generate has returned                          *)
(* ------------------------------------------------------------------ *)
\* the list loses the first contact
ChangeTypes_DropFirst(pop) ==
    [u \in DOMAIN pop |->
        [pop[u] EXCEPT !.contacts =
            [l \in DOMAIN @ |-> IF @[l] = {} THEN <<>> ELSE Tail(SetToList(@[l]))]]]

\* lines 118-120: every contact set becomes a list
ChangeTypes(pop) ==
    [u \in DOMAIN pop |->
        [pop[u] EXCEPT !.contacts = [l \in DOMAIN @ |-> SetToList(@[l])]]]

\* the constructor goes on after a failed generate
Generated_OrFailed == pc \in {"generated", "failed"}

\* line 115: generate has returned its population
Generated == pc = "generated"

\* lines 115-124
FinishInit ==
    /\ Generated
    /\ popdict' = ChangeTypes(population)
    /\ pc' = "done"
    /\ UNCHANGED <<cfgVars, facVars, homeVars, poolVars, roleVars, loop, error,
                   population, exported, rngVars, runVars>>

\* Pop.to_dict and pop.popdict are readable once the constructor has returned:
\* the population a caller can read
Readable == popdict # <<>>

(* ------------------------------------------------------------------ *)
(* Pop.to_dict and its caller                                         *)
(* ------------------------------------------------------------------ *)
\* the objects a dictionary is made of below the dictionary itself: the
\* dictionary of each person, and the contact lists in it
Levels == {"person", "contacts"}

\* a copy of the dictionary alone: the persons and their lists are shared
dcp_Shallow(obj) == [val |-> obj, aliased |-> Levels]

\* sc.dcp: a deep copy, no object of which is an object of the original
dcp(obj) == [val |-> obj, aliased |-> {}]

\* lines 495-497: to_dict on a constructed Pop
ToDict ==
    /\ pc = "done"
    /\ exported' = [val |-> dcp(popdict).val, aliased |-> dcp(popdict).aliased,
                    fresh |-> TRUE]
    /\ UNCHANGED <<pc, cfgVars, facVars, homeVars, poolVars, roleVars, loop,
                   error, population, popdict, rngVars, runVars>>

\* a person's age is overwritten
SetAge(pop, u) == [pop EXCEPT ![u].age = None]

\* a contact list is emptied in place
ClearContacts(pop, u, l) == [pop EXCEPT ![u].contacts[l] = <<>>]

\* the caller changes the dictionary to_dict returned, once per call: the
\* change is seen through every reference to the object changed
MutateExported ==
    /\ pc = "done"
    /\ exported.fresh
    /\ \E u \in DOMAIN exported.val :
          \/ /\ exported' = [exported EXCEPT !.val = SetAge(@, u), !.fresh = FALSE]
             /\ popdict' = IF "person" \in exported.aliased
                            THEN SetAge(popdict, u) ELSE popdict
          \/ \E l \in Layers :
                /\ exported.val[u].contacts[l] # <<>>
                /\ exported' = [exported EXCEPT !.val = ClearContacts(@, u, l),
                                                !.fresh = FALSE]
                /\ popdict' = IF "contacts" \in exported.aliased
                               THEN ClearContacts(popdict, u, l) ELSE popdict
    /\ UNCHANGED <<pc, cfgVars, facVars, homeVars, poolVars, roleVars, loop,
                   error, population, rngVars, runVars>>

Next ==
    \/ InitPop
    \/ MakeResidents
    \/ PlaceResidents
    \/ GenerateHouseholds
    \/ SendStudentsToSchool
    \/ GetPotentialWorkers
    \/ RemoveResidents
    \/ AssignTeachersStart
    \/ AssignTeachersDraw
    \/ AssignTeachersDone
    \/ AssignStaffStart
    \/ AssignStaffDraw
    \/ AssignStaffDone
    \/ FacilityStaffStart
    \/ FacilityStaffDraw
    \/ FacilityStaffDone
    \/ AssignRestOfWorkers
    \/ MakePopdict
    \/ FinishInit

Spec == Init /\ [][Next]_vars

(* ------------------------------------------------------------------ *)
(* Two constructions with the same arguments                          *)
(* ------------------------------------------------------------------ *)
\* the construction that is repeated: seeded, with the options of
\* test_regression_make_population, everyone of working age employed
InitTwoRuns ==
    /\ Args
    /\ rand_seed # None
    /\ do_make
    /\ TestLocation
    /\ ~with_facilities /\ ~with_school_types /\ ~with_non_teaching_staff
    /\ employment_rate = 2
    /\ \E sb \in DOMAIN KC_residents_size_brackets : 0 \in KC_residents_size_brackets[sb]
    /\ Blank
    /\ seeded = FALSE
    /\ tape = <<>>
    /\ tapeIdx = 0
    /\ runNo = 1
    /\ firstPop = <<>>

\* Pop(...) is constructed again with the arguments of the first construction
\* (run_regression compares the population with that of an earlier run)
Rerun ==
    /\ pc = "done"
    /\ runNo = 1
    /\ runNo' = 2
    /\ firstPop' = popdict
    /\ pc' = "new"
    /\ expected_users_by_age' = <<>>
    /\ all_residents' = <<>>
    /\ facilities' = <<>>
    /\ ratio_sb' = <<>>
    /\ homes_by_uids' = <<>>
    /\ age_by_uid_dic' = <<>>
    /\ facilities_by_uids' = <<>>
    /\ syn_school_uids' = <<>>
    /\ potential_worker_uids' = {}
    /\ potential_worker_uids_by_age' = [a \in Ages |-> <<>>]
    /\ workers_by_age_to_assign_count' = [a \in Ages |-> 0]
    /\ syn_teacher_uids' = <<>>
    /\ syn_non_teaching_staff_uids' = <<>>
    /\ facilities_staff_uids' = <<>>
    /\ syn_workplace_uids' = <<>>
    /\ loop' = <<1, -1>>
    /\ error' = "none"
    /\ population' = <<>>
    /\ popdict' = <<>>
    /\ exported' = NoExport
    /\ self_country_location' = NoName
    /\ self_state_location' = NoName
    /\ self_location' = NoName
    /\ UNCHANGED <<argVars, rngVars>>

NextTwoRuns == Next \/ Rerun

SpecTwoRuns == InitTwoRuns /\ [][NextTwoRuns]_vars

(* ------------------------------------------------------------------ *)
(* A construction and the caller that reads the population            *)
(* ------------------------------------------------------------------ *)
\* a construction as test_school_types_created makes it, with either value of
\* do_make, whose population the caller reads with to_dict
InitCaller ==
    /\ Args
    /\ rand_seed = None
    /\ TestLocation
    /\ with_facilities /\ with_school_types /\ with_non_teaching_staff
    /\ employment_rate = 2
    /\ Blank
    /\ seeded = FALSE
    /\ tape = <<>>
    /\ tapeIdx = 0
    /\ runNo = 0
    /\ firstPop = <<>>

NextCaller == Next \/ ToDict \/ MutateExported

SpecCaller == InitCaller /\ [][NextCaller]_vars

(* ------------------------------------------------------------------ *)
(* The expected users of every age                                    *)
(* ------------------------------------------------------------------ *)
\* line 258: range(60, 101)
ResidentAgeRange == resident_age_min..max_age

\* lines 254-285 for every age of range(60, 101)
ExpectedUsersByAge ==
    /\ pc = "generate"
    /\ expected_users_by_age' = [a \in ResidentAgeRange |-> ExpectedUsers(a)]
    /\ pc' = "users"
    /\ UNCHANGED <<cfgVars, all_residents, facilities, ratio_sb, homeVars,
                   poolVars, roleVars, loop, error, outVars, rngVars, runVars>>

\* lines 325-326: int(n * expected_age_distr[a])
ExpectedAgeCount(a) == (n * AgeShare16Num(a)) \div AgeShare16Den(a)

\* lines 328-330: the count of an age less the facility users of that age
ltcf_adjusted_age_count(a) ==
    IF a \in DOMAIN expected_users_by_age
    THEN ExpectedAgeCount(a) - expected_users_by_age[a]
    ELSE ExpectedAgeCount(a)

\* np.sum of expected_users_by_age: the residents lines 294-316 place
TotalUsers ==
    LET ages == SetToList(DOMAIN expected_users_by_age)
    IN SumSeq([i \in 1..Len(ages) |-> expected_users_by_age[ages[i]]])

\* one construction with the default options and a usage rate for every
\* bracket
InitUsers ==
    /\ n \in 1..MaxN
    /\ with_facilities = FALSE
    /\ with_school_types = FALSE
    /\ with_non_teaching_staff = FALSE
    /\ school_mixing_type = "random"
    /\ rand_seed = None
    /\ do_make = TRUE
    /\ DefaultLocation
    /\ average_student_teacher_ratio \in StudentTeacherRatios
    /\ average_student_all_staff_ratio \in StudentAllStaffRatios
    /\ est_perc \in [UsageBrackets -> PercValues]
    /\ KC_residents_size_brackets = <<{1, 2}>>
    /\ employment_rate = 2
    /\ Blank
    /\ seeded = FALSE
    /\ tape = <<>>
    /\ tapeIdx = 0
    /\ runNo = 0
    /\ firstPop = <<>>

NextUsers == InitPop \/ ExpectedUsersByAge

SpecUsers == InitUsers /\ [][NextUsers]_vars

(* ------------------------------------------------------------------ *)
(* The location of a construction                                     *)
(* ------------------------------------------------------------------ *)
\* the names a caller gives, or None
Countries == {NoName, "usa", "Senegal"}
States == {NoName, "Washington", "Oregon"}
Locations == {NoName, "seattle_metro", "portland_metro"}

\* one construction with any location
InitLocation ==
    /\ Args
    /\ country_location \in Countries
    /\ state_location \in States
    /\ location \in Locations
    /\ Blank
    /\ seeded = FALSE
    /\ tape = <<>>
    /\ tapeIdx = 0
    /\ runNo = 0
    /\ firstPop = <<>>

\* the constructor up to the call of generate
NextLocation == InitPop

SpecLocation == InitLocation /\ [][NextLocation]_vars

(* ------------------------------------------------------------------ *)
(* Views of the state used by the properties                          *)
(* ------------------------------------------------------------------ *)
\* generate has returned a population
Succeeded == pc \in {"generated", "done"}

\* the uids of the groups of a list of groups
UidsIn(groups) == UNION {Range(groups[i]) : i \in 1..Len(groups)}

\* how many places of a list of groups hold uid u
Places(groups, u) ==
    Cardinality({ij \in (1..Len(groups)) \X (1..MaxN + 1) :
                    ij[2] <= Len(groups[ij[1]]) /\ groups[ij[1]][ij[2]] = u})

Residents == UidsIn(facilities_by_uids)
FacilityStaff == UidsIn(facilities_staff_uids)
Teachers == UidsIn(syn_teacher_uids)
NonTeachingStaff == UidsIn(syn_non_teaching_staff_uids)
Workers == UidsIn(syn_workplace_uids)

RoleSets == <<Residents, FacilityStaff, Students, Teachers, NonTeachingStaff, Workers>>

(* ------------------------------------------------------------------ *)
(* Properties                                                         *)
(* ------------------------------------------------------------------ *)

C2_OneHomeOrFacility ==
    Succeeded =>
        \A u \in Uids : Places(facilities_by_uids \o homes_by_uids, u) = 1

\* a finished run with two facilities and a household
C2_Witness ==
    /\ pc = "done"
    /\ Len(facilities_by_uids) >= 2
    /\ Len(homes_by_uids) >= 1
    /\ Residents # {}

C4_FacilitiesNonEmpty ==
    /\ \A i \in 1..Len(facilities) : Len(facilities[i]) >= 1
    /\ pc \in {"workplaces", "contacts", "generated", "done"} =>
          \A i \in 1..Len(facilities_staff_uids) : Len(facilities_staff_uids[i]) >= 1

\* C5: with facilities and school types disabled there is no facility and no
\* facility staff, and in the population every individual has a household id.
C5_NoFacilitiesWhenDisabled ==
    (~with_facilities /\ ~with_school_types) =>
        /\ facilities = <<>>
        /\ FacilityStaff = {}
        /\ \A u \in DOMAIN popdict : popdict[u].hhid # None

Exhausted(range) ==
    \/ CountLeft(range) = 0
    \/ \A a \in range : potential_worker_uids_by_age[a] = <<>>

\* the staff counts a facility of the given size can be asked to have
StaffCounts(n_residents) ==
    {NStaff(n_residents, KC_ratio_brackets[sb]) : sb \in DOMAIN KC_ratio_brackets}

\* C8: a facility-staff draw with no worker left in the staff age range ends
\* the run with an error, and no run goes past the staffing of the facilities
\* with a facility that has fewer staff than its ratio asked for.
C8_ExhaustedStaffIsFatal ==
    /\ [][(pc = "facility_staff" /\ loop[2] > 0 /\ Exhausted(LtcfStaffAges))
            => (pc' = "failed" /\ error' = "facility_staff")]_vars
    /\ [](error = "facility_staff" => pc = "failed" /\ ~Readable)
    /\ [](pc \in {"workplaces", "contacts", "generated", "done"} =>
            /\ Len(facilities_staff_uids) = Len(facilities)
            /\ \A i \in 1..Len(facilities) :
                  Len(facilities_staff_uids[i]) \in StaffCounts(Len(facilities[i])))

\* a run ended by a facility-staff draw, the facility having some staff already
C8_Witness ==
    /\ error = "facility_staff"
    /\ FacilityStaff # {}

C10_NoPartialPopulation ==
    /\ Readable => pc = "done"
    /\ pc = "done" => (error = "none" /\ Readable /\ Len(popdict) = n)
    /\ error # "none" => (pc = "failed" /\ ~Readable)

\* a failed run that had placed residents, made households and drawn staff
C10_Witness ==
    /\ pc = "failed"
    /\ facilities # <<>>
    /\ age_by_uid_dic # <<>>
    /\ Teachers \cup FacilityStaff # {}
    /\ ~Readable

C11_ConflictRejected ==
    (school_mixing_type = "by_type" /\ ~with_school_types) =>
        /\ pc \in {"new", "failed"}
        /\ pc = "failed" => error = "configuration"

\* C11, as the constructor behaves: a mixing type per school type with the
\* school types off is stored like any other argument; the constructor goes
\* on to generate, seeding the generator as the seed says, and no run ends
\* with a configuration error.
C11_ConflictAccepted ==
    /\ [][(pc = "new" /\ school_mixing_type = "by_type" /\ ~with_school_types)
            => (pc' = "generate" /\ seeded' = (rand_seed # None))]_vars
    /\ [](error # "configuration")

\* a population made with a mixing type per school type and the school types off
C11_Witness ==
    /\ school_mixing_type = "by_type" /\ ~with_school_types
    /\ pc = "done"
    /\ Students # {}

StaffedFacilities ==
    {i \in 1..Len(facilities_staff_uids) :
        pc \in {"facility_staff", "failed"} => i < loop[1]}

\* the smallest and the largest ratio of a bracket
BracketMin(sb_range) == CHOOSE x \in sb_range : \A y \in sb_range : x <= y
BracketMax(sb_range) == CHOOSE x \in sb_range : \A y \in sb_range : x >= y

\* C13: for every facility (with a resident) the ratio residents / staff lies
\* between the smallest and the largest ratio of the bracket sampled for it,
\* each divided by 3.
C13_RatioInBracket ==
    \A i \in StaffedFacilities :
        Len(facilities[i]) >= 1 =>
            LET sb_range == KC_ratio_brackets[ratio_sb[i]]
                n_staff == Len(facilities_staff_uids[i])
            IN /\ n_staff >= 1
               /\ BracketMin(sb_range) * n_staff <= 3 * Len(facilities[i])
               /\ 3 * Len(facilities[i]) <= BracketMax(sb_range) * n_staff

\* C13, as the code rounds: a facility has ceil(residents / (mean of the
\* sampled bracket / 3)) staff, so residents / staff is at most the mean (and
\* the largest ratio) of the bracket divided by 3, and with one staff member
\* fewer it would be more than the mean divided by 3.
C13_StaffRoundedUp ==
    \A i \in StaffedFacilities :
        LET sb_range == KC_ratio_brackets[ratio_sb[i]]
            n_staff == Len(facilities_staff_uids[i])
            n_residents == Len(facilities[i])
        IN /\ 3 * n_residents * Cardinality(sb_range) <= n_staff * SumSet(sb_range)
           /\ 3 * n_residents <= n_staff * BracketMax(sb_range)
           /\ (n_staff - 1) * SumSet(sb_range) < 3 * n_residents * Cardinality(sb_range)

\* a finished run with a staffed facility whose ratio is under the smallest
\* ratio of its bracket divided by 3
C13_Witness ==
    /\ pc = "done"
    /\ \E i \in StaffedFacilities :
          /\ Len(facilities[i]) >= 1
          /\ 3 * Len(facilities[i])
                < BracketMin(KC_ratio_brackets[ratio_sb[i]]) * Len(facilities_staff_uids[i])

\* the school types of the stored population: the sc_type of everyone with a
\* school id
GeneratedTypes == {popdict[u].sc_type : u \in {v \in DOMAIN popdict : popdict[v].scid # None}}

\* everyone of one school has the same sc_type
OneTypePerSchool ==
    \A u \in DOMAIN popdict : \A v \in DOMAIN popdict :
        (popdict[u].scid # None /\ popdict[u].scid = popdict[v].scid)
            => popdict[u].sc_type = popdict[v].sc_type

C15_UntypedSchools ==
    (~with_school_types /\ Readable) =>
        /\ GeneratedTypes \subseteq {"None"}
        /\ \A u \in DOMAIN popdict : popdict[u].sc_type = "None"

\* a stored population with a school of students and a teacher, made without
\* school types and with a mixing type per school type
C15_Witness ==
    /\ ~with_school_types /\ school_mixing_type = "by_type" /\ Readable
    /\ Students # {} /\ Teachers # {}
    /\ GeneratedTypes = {"None"}

\* every school has its list of teachers, and of non-teaching staff
SchoolsStaffed ==
    /\ Len(syn_teacher_uids) = Len(syn_school_uids)
    /\ Len(syn_non_teaching_staff_uids) = Len(syn_school_uids)

\* C16: the facility stage is over before a later stage draws: when the first
\* teacher or non-teaching staff member has been drawn, the residents and the
\* staff of every facility are out of the potential-worker pool.
C16_FacilityStageFirst ==
    (Teachers \cup NonTeachingStaff # {}) =>
        /\ Residents \cap potential_worker_uids = {}
        /\ Len(facilities_staff_uids) = Len(facilities)
        /\ FacilityStaff \cap potential_worker_uids = {}

\* C16, in the order of generate: residents are placed before the households
\* are made, students are enrolled before the pool is computed, the residents
\* are out of the pool before the first teacher or non-teaching staff member
\* is drawn, the facility staff are drawn only after the teachers and
\* non-teaching staff of every school, the workplaces are filled only after
\* every facility is staffed, and the contacts are made last.
C16_StageOrder ==
    /\ age_by_uid_dic # <<>> => all_residents = <<>>
    /\ potential_worker_uids # {} => Students \cap potential_worker_uids = {}
    /\ (Teachers \cup NonTeachingStaff # {}) => Residents \cap potential_worker_uids = {}
    /\ syn_non_teaching_staff_uids # <<>> => Len(syn_teacher_uids) = Len(syn_school_uids)
    /\ facilities_staff_uids # <<>> => SchoolsStaffed
    /\ syn_workplace_uids # <<>> =>
          (SchoolsStaffed /\ Len(facilities_staff_uids) = Len(facilities))
    /\ population # <<>> => pc \in {"generated", "done"}

\* the teachers are drawn, a resident of their age range being out of the
\* pool, and no facility has staff yet
C16_Witness ==
    /\ Teachers # {} /\ pc = "staff"
    /\ \E u \in Residents : age_by_uid_dic[u] \in TeacherAges
    /\ facilities # <<>>
    /\ facilities_staff_uids = <<>>

\* no count left to assign is larger after the step
CountsNotIncreased ==
    \A a \in Ages :
        workers_by_age_to_assign_count'[a] <= workers_by_age_to_assign_count[a]

\* the step takes at most one off the count of at most one age
AtMostOneTaken ==
    /\ \A a \in Ages :
          workers_by_age_to_assign_count[a] - workers_by_age_to_assign_count'[a] \in {0, 1}
    /\ Cardinality({a \in Ages : workers_by_age_to_assign_count'[a]
                                    # workers_by_age_to_assign_count[a]}) <= 1

\* C17: the count left to assign of an age is never negative; once the counts
\* are computed no step increases one; and a draw of a teacher, a non-teaching
\* staff member or a facility staff member decrements the count of one age by
\* one and leaves the others alone.
C17_CountOnlyDecreases ==
    /\ [](\A a \in Ages : workers_by_age_to_assign_count[a] >= 0)
    /\ [][(pc # "workers") => CountsNotIncreased]_vars
    /\ [][(pc \in {"teachers", "staff", "facility_staff"}) => AtMostOneTaken]_vars

\* a finished run where more residents of an age were taken out of the pool
\* than were left to assign of that age, and staff were drawn afterwards
C17_Witness ==
    /\ pc = "done"
    /\ FacilityStaff # {}
    /\ \E a \in Ages :
          /\ WorkersByAgeToAssign[a] > 0
          /\ Cardinality({u \in Residents : age_by_uid_dic[u] = a}) > WorkersByAgeToAssign[a]
          /\ workers_by_age_to_assign_count[a] = 0

\* C18: with with_non_teaching_staff False no uid is ever drawn as
\* non-teaching school staff, and the stage takes nothing off the counts left
\* to assign.
C18_NoStaffWhenDisabled ==
    ~with_non_teaching_staff =>
        /\ NonTeachingStaff = {}
        /\ \A i \in 1..Len(syn_non_teaching_staff_uids) :
              syn_non_teaching_staff_uids[i] = <<>>

\* C19: with do_make False the constructor does not call generate: nothing
\* is sampled and no population is made or stored.
C19_DoMakeControls ==
    ~do_make =>
        /\ pc \in {"new", "done"}
        /\ all_residents = <<>> /\ facilities = <<>> /\ age_by_uid_dic = <<>>
        /\ population = <<>>
        /\ popdict = <<>>

\* C20: to_dict returns a dictionary equal to popdict, and no step after the
\* constructor has returned, a change of a returned dictionary or of a contact
\* list in it included, changes popdict, so that every to_dict call returns
\* the same value.
C20_ExportIsCopy ==
    /\ [](exported.fresh => exported.val = popdict)
    /\ [][(pc = "done") => popdict' = popdict]_vars
    /\ [](pc = "done" => popdict = ChangeTypes(population))

\* a returned dictionary in which the caller has emptied a contact list that
\* popdict still has
C20_Witness ==
    /\ pc = "done"
    /\ ~exported.fresh
    /\ exported.val # <<>>
    /\ \E u \in DOMAIN popdict : \E l \in Layers :
          popdict[u].contacts[l] # <<>> /\ exported.val[u].contacts[l] = <<>>

(* ------------------------------------------------------------------ *)
(* The placement loop                                                 *)
(* ------------------------------------------------------------------ *)
\* how many entries of the list s are the age a
CountOfAge(s, a) == Cardinality({i \in 1..Len(s) : s[i] = a})

\* the sizes np.random.choice can return for a new facility
SampledSizes == UNION Range(KC_residents_size_brackets)

\* one iteration moves the first k residents of the list to a new facility,
\* k being the sampled size or, if that is more than are left, all of them
TakesFromFront ==
    (pc = "place" /\ facilities' # facilities) =>
        \E sampled \in SampledSizes :
            LET k == Min(sampled, Len(all_residents))
            IN /\ facilities' = Append(facilities, SubSeq(all_residents, 1, k))
               /\ all_residents' = SubSeq(all_residents, k + 1, Len(all_residents))

\* C21: the placement loop partitions the shuffled resident list: every
\* iteration moves min(sampled size, residents left) residents from the front
\* of the list to a new facility, the facilities and the list together always
\* hold expected_users_by_age[a] residents of every age a, and once the list
\* is empty every resident is in one facility.
C21_PlacementPartitions ==
    /\ [][TakesFromFront]_vars
    /\ [](pc \notin {"new", "generate"} =>
            LET placed == Flatten(facilities)
            IN /\ \A a \in ResidentAges :
                    CountOfAge(placed, a) + CountOfAge(all_residents, a)
                        = expected_users_by_age[a]
               /\ pc # "place" =>
                    /\ all_residents = <<>>
                    /\ Len(placed) = SumSeq([i \in 1..Cardinality(ResidentAges) |->
                           expected_users_by_age[SetToList(ResidentAges)[i]]])
               /\ facilities_by_uids # <<>> =>
                    \A a \in ResidentAges :
                        Cardinality({u \in Residents : age_by_uid_dic[u] = a})
                            = expected_users_by_age[a])

\* two residents have been placed in two facilities and the list is empty
C21_Witness ==
    /\ pc = "school"
    /\ Len(facilities) = 2
    /\ Len(facilities[1]) = 1 /\ Len(facilities[2]) = 1
    /\ all_residents = <<>>

\* C22: the placement loop terminates with the resident list empty whatever
\* sizes it samples, a size 0 included: every iteration leaves fewer
\* residents in the list than it found, so the loop runs at most as many
\* iterations as there are residents.
C22_LoopTerminates ==
    [][(pc = "place" /\ facilities' # facilities) =>
            Len(all_residents') < Len(all_residents)]_vars

(* ------------------------------------------------------------------ *)
(* The staff of a facility                                            *)
(* ------------------------------------------------------------------ *)
\* n_staff of the facility i: math.ceil of its residents over a third of the
\* mean of the ratio bracket sampled for it
StaffAsked(i) == NStaff(Len(facilities[i]), KC_ratio_brackets[ratio_sb[i]])

\* C24: for each facility the staff drawn are ceil(residents / (r / 3)), r
\* being the ratio sampled for the facility (the mean of the ratio bracket
\* drawn for it): while the facility is being staffed the staff recorded and
\* the draws still to do add up to that number, and a run that succeeds has
\* recorded exactly that many staff uids for every facility.
C24_StaffAsDerived ==
    /\ (pc = "facility_staff" /\ loop[2] > 0) =>
          Len(facilities_staff_uids[loop[1]]) + loop[2] = StaffAsked(loop[1])
    /\ Succeeded =>
          /\ Len(ratio_sb) = Len(facilities)
          /\ Len(facilities_staff_uids) = Len(facilities)
          /\ \A i \in 1..Len(facilities) :
                /\ Len(facilities_staff_uids[i]) = StaffAsked(i)
                /\ Cardinality(Range(facilities_staff_uids[i])) = StaffAsked(i)

\* a finished run with a facility of two residents for which two staff were
\* asked and recorded
C24_Witness ==
    /\ pc = "done"
    /\ \E i \in 1..Len(facilities) :
          /\ Len(facilities[i]) = 2
          /\ StaffAsked(i) = 2
          /\ Len(facilities_staff_uids[i]) = 2

\* a step of the facility-staff loop that records a staff member records a
\* potential worker of an age in the staff range with a count left to assign,
\* and takes the uid out of the list of its age and out of the dictionary
StaffDrawTakes ==
    (pc = "facility_staff" /\ loop[2] > 0 /\ pc' = "facility_staff") =>
        \E u \in potential_worker_uids :
            LET a == age_by_uid_dic[u]
            IN /\ a \in LtcfStaffAges
               /\ a >= ltcf_staff_age_min /\ a <= ltcf_staff_age_max
               /\ workers_by_age_to_assign_count[a] > 0
               /\ u \in Range(potential_worker_uids_by_age[a])
               /\ facilities_staff_uids' = AddToLast(facilities_staff_uids, u)
               /\ u \notin potential_worker_uids'
               /\ u \notin Range(potential_worker_uids_by_age'[a])

\* C25: each facility-staff draw picks an age of the staff age range whose
\* count left to assign is positive and takes the uid drawn out of the list
\* of its age and out of the potential-worker dictionary; no uid is staff of
\* two facilities or listed twice in one, and no staff member is left in the
\* pool.
C25_StaffDrawnOnce ==
    /\ [][StaffDrawTakes]_vars
    /\ [](\A u \in FacilityStaff :
            /\ Places(facilities_staff_uids, u) = 1
            /\ u \notin potential_worker_uids
            /\ u \notin Range(potential_worker_uids_by_age[age_by_uid_dic[u]]))

\* a finished run with staff in two facilities
C25_Witness ==
    /\ pc = "done"
    /\ \E i \in 1..Len(facilities_staff_uids) :
       \E j \in 1..Len(facilities_staff_uids) :
          /\ i < j
          /\ facilities_staff_uids[i] # <<>>
          /\ facilities_staff_uids[j] # <<>>

PositionsOf(u, a) ==
    {i \in 1..Len(potential_worker_uids_by_age[a]) :
        potential_worker_uids_by_age[a][i] = u}

\* C29: the dictionary potential_worker_uids and the lists
\* potential_worker_uids_by_age hold the same uids: a uid is a key of the
\* dictionary iff it is in the list of its own age, where it is once, and it
\* is in the list of no other age; once the residents have been removed no
\* facility resident is in either.
C29_PoolsInSync ==
    /\ \A u \in Uids :
          /\ u \in potential_worker_uids <=>
                Cardinality(PositionsOf(u, age_by_uid_dic[u])) = 1
          /\ Cardinality(PositionsOf(u, age_by_uid_dic[u])) <= 1
          /\ \A a \in Ages \ {age_by_uid_dic[u]} : PositionsOf(u, a) = {}
    /\ potential_worker_uids \subseteq Uids
    /\ pc \in {"teachers", "staff", "facility_staff", "workplaces", "contacts",
               "generated", "done"} =>
          \A u \in Residents :
              /\ u \notin potential_worker_uids
              /\ \A a \in Ages : PositionsOf(u, a) = {}

\* the facilities are being staffed: residents have been removed from the
\* pool, a staff member has been drawn from it, and it still holds workers
C29_Witness ==
    /\ pc = "facility_staff"
    /\ Residents # {}
    /\ FacilityStaff # {}
    /\ potential_worker_uids # {}

(* ------------------------------------------------------------------ *)
(* The expected users and the age counts                              *)
(* ------------------------------------------------------------------ *)
\* the usage bracket an age belongs to
BracketOf(a) ==
    IF a >= 60 /\ a <= 64 THEN "60-64"
    ELSE IF a >= 65 /\ a <= 74 THEN "65-74"
    ELSE IF a >= 75 /\ a <= 84 THEN "75-84"
    ELSE "85-100"

\* C23: for every age a of 60..100 the residents to create are
\* n * age_share(a) * usage_rate(bracket of a) rounded up, the ages 60-64,
\* 65-74, 75-84 and 85-100 being given the rate of their own bracket, and no
\* age below 60 is given residents.
C23_UsersByBracket ==
    pc = "users" =>
        /\ DOMAIN expected_users_by_age = 60..100
        /\ \A a \in 60..100 :
              LET num == n * AgeShare18Num(a) * est_perc[BracketOf(a)]
                  den == AgeShare18Den(a) * PercDen(a)
                  users == expected_users_by_age[a]
              IN /\ users * den >= num
                 /\ (users - 1) * den < num
                 /\ users >= 0

\* the expected users have been computed and differ between the last age of
\* every bracket and the first age of the next
C23_Witness ==
    /\ pc = "users"
    /\ expected_users_by_age[64] # expected_users_by_age[65]
    /\ expected_users_by_age[74] # expected_users_by_age[75]
    /\ expected_users_by_age[84] # expected_users_by_age[85]

\* C27: for every age a of 60..100, ltcf_adjusted_age_count[a] is not
\* negative: the expected users of the age, rounded up, are no more than the
\* expected count of the age, int(n * share of the age).
C27_AdjustedCountNonNegative ==
    pc = "users" =>
        \A a \in 60..100 : ltcf_adjusted_age_count(a) >= 0

\* C28: the people left for the households, n less the residents of all
\* ages, are not negative, whatever n >= 1 and the rounding up of each age.
C28_NonLtcfNonNegative ==
    pc = "users" => n - TotalUsers >= 0

(* ------------------------------------------------------------------ *)
(* The location                                                       *)
(* ------------------------------------------------------------------ *)
\* what the constructor leaves in self.country_location, self.state_location
\* and self.location, for the arguments it was given
LocationResolved ==
    /\ country_location = NoName =>
          /\ self_country_location' = default_country
          /\ self_state_location' = default_state
          /\ self_location' = default_location
    /\ country_location # NoName =>
          /\ self_country_location' = country_location
          /\ self_state_location' = state_location
          /\ state_location # NoName => self_location' = location
    /\ self_state_location' = NoName => self_location' = NoName

\* C30: the constructor resolves the location: without a country_location
\* the country, the state and the location are the configured defaults,
\* whatever state_location and location the caller gave; with one, the
\* caller's values are kept; and in every case a state_location of None
\* leaves the location None.
C30_LocationResolved ==
    /\ [][(pc = "new" /\ pc' # "new") => LocationResolved]_vars
    /\ [](pc # "new" =>
            /\ self_country_location # NoName
            /\ self_state_location = NoName => self_location = NoName)

\* a construction without a country whose state and location were replaced
\* by the defaults
C30_Witness ==
    /\ pc = "generate"
    /\ country_location = NoName
    /\ state_location = "Oregon" /\ location = "portland_metro"
    /\ self_state_location = "Washington" /\ self_location = "seattle_metro"

====
